---- MODULE Spec2Model ----
(***************************************************************************)
(* State-machine model of homework.py: the startup credential check, the  *)
(* polling loop of main() and the functions it calls (get_api_answer,     *)
(* check_response, parse_status, send_message).                           *)
(*                                                                         *)
(* Python values are records with a tag: a field of a JSON object is      *)
(* [k, v] with k = "absent" | "str" | "other"; a homework entry is        *)
(* [t, lesson_name, status] with t = "dict" | "other"; a decoded body is  *)
(* [t, hw, cd].  The Russian message texts of the source are rendered in  *)
(* ASCII; distinct source texts stay distinct.                            *)
(***************************************************************************)
EXTENDS Integers, Sequences, FiniteSets, TLC

VARIABLES
    creds,         \* PRACTICUM_TOKEN, TELEGRAM_TOKEN, TELEGRAM_CHAT_ID: TRUE when set
    pc,            \* position of main(): STARTING, RUNNING, WAITING, SLEEPING, TERMINATED
    exit_code,     \* process exit status, -1 while the process lives
    clock,         \* int(time.time())
    timestamp,     \* main: timestamp
    prev_verdict,  \* main: prev_verdict
    new_timestamp, \* main: new_timestamp
    new_verdict,   \* main: new_verdict ("None" stands for None)
    PAYLOAD,       \* module global PAYLOAD
    reply,         \* what the HTTP exchange of the current iteration produced
    logged,        \* the exception logged by the current iteration
    outbox,        \* every bot.send_message call so far: [text, ok]
    iter_sent,     \* send_message calls made by the current iteration
    polls,         \* requests.get calls so far
    failures       \* iterations so far that ended in an except clause

vars == <<creds, pc, exit_code, clock, timestamp, prev_verdict, new_timestamp,
          new_verdict, PAYLOAD, reply, logged, outbox, iter_sent, polls, failures>>

----------------------------------------------------------------------------
(* Bounds of the model *)

MaxPolls == 3      \* iterations of the loop explored
MaxHw == 2         \* longest homeworks list explored

(* Program constants *)

RETRY_PERIOD == 10
HTTP_OK == 200

StartTimes == {100}
Names == {"Task1", "Task2"}
Statuses == {"approved", "reviewing", "rejected", "archived"}
StatusCodes == {200, 500}
CurrentDates == {100}
TokenNames == <<"PRACTICUM_TOKEN", "TELEGRAM_TOKEN", "TELEGRAM_CHAT_ID">>

----------------------------------------------------------------------------
(* Input domains *)

Absent == [k |-> "absent", v |-> ""]
Other == [k |-> "other", v |-> "7"]   \* a JSON number; v is its str()
Str(s) == [k |-> "str", v |-> s]

NameFields == {Absent, Other} \cup {Str(n) : n \in Names}
StatusFields == {Absent, Other} \cup {Str(s) : s \in Statuses}

NonDictEntry == [t |-> "other", lesson_name |-> Absent, status |-> Absent]
Entry(n, s) == [t |-> "dict", lesson_name |-> n, status |-> s]
(* entries with two string fields, and entries with one defect *)
Entries == {NonDictEntry}
           \cup {Entry(Str(n), Str(s)) : n \in Names, s \in Statuses}
           \cup {Entry(n, Str("approved")) : n \in NameFields}
           \cup {Entry(Str("Task1"), s) : s \in StatusFields}

SeqsUpTo(S, n) == UNION {[1..m -> S] : m \in 0..n}

HwFields == {[k |-> "absent", items |-> <<>>], [k |-> "other", items |-> <<>>]}
            \cup {[k |-> "list", items |-> s] : s \in SeqsUpTo(Entries, MaxHw)}
CdFields == {[k |-> "absent", v |-> 0], [k |-> "other", v |-> 0]}
            \cup {[k |-> "int", v |-> d] : d \in CurrentDates}

NoBody == [t |-> "undecodable", hw |-> [k |-> "absent", items |-> <<>>],
           cd |-> [k |-> "absent", v |-> 0]]
NonObjectBody == [t |-> "other", hw |-> [k |-> "absent", items |-> <<>>],
                  cd |-> [k |-> "absent", v |-> 0]]
Bodies == {NoBody, NonObjectBody} \cup
          {[t |-> "dict", hw |-> h, cd |-> c] : h \in HwFields, c \in CdFields}

NoReply == [net |-> "none", status_code |-> 0, body |-> NoBody]
NetFail == [net |-> "fail", status_code |-> 0, body |-> NoBody]
Replies == {NetFail}
           \cup {[net |-> "ok", status_code |-> c, body |-> NoBody] :
                    c \in StatusCodes \ {HTTP_OK}}
           \cup {[net |-> "ok", status_code |-> HTTP_OK, body |-> b] : b \in Bodies}

----------------------------------------------------------------------------
(* Exceptions and results.  A call either returns a value or raises:      *)
(* [ok, err, val].  err = [cls, origin, detail, code].                    *)

NoError == [cls |-> "none", origin |-> "none", detail |-> "", code |-> 0]
Exc(cls, origin, detail, code) ==
    [cls |-> cls, origin |-> origin, detail |-> detail, code |-> code]
APIException(origin, detail, code) == Exc("APIException", origin, detail, code)

Return(v) == [ok |-> TRUE, err |-> NoError, val |-> v]
Raised(e) == [ok |-> FALSE, err |-> e]

List(items) == [t |-> "list", items |-> items]

----------------------------------------------------------------------------
(* check_tokens: the first credential that is None, "" when all are set *)

check_tokens_skips_chat_id(c) ==
    LET missing == {i \in 1..2 : ~c[TokenNames[i]]}
    IN IF missing = {} THEN ""
       ELSE TokenNames[CHOOSE i \in missing : \A j \in missing : i <= j]

check_tokens(c) ==
    LET missing == {i \in 1..Len(TokenNames) : ~c[TokenNames[i]]}
    IN IF missing = {} THEN ""
       ELSE TokenNames[CHOOSE i \in missing : \A j \in missing : i <= j]

(* get_api_answer after requests.get was issued.  jsonCompat tells whether *)
(* the decoder's error is a json.JSONDecodeError in this installation.    *)

get_api_answer_ignores_status(r, jsonCompat) ==
    IF r.net = "fail"
    THEN Raised(APIException("get_api_answer", "no access to API", 0))
    ELSE IF r.body.t = "undecodable"
    THEN IF jsonCompat
         THEN Raised(APIException("get_api_answer", "JSON decoding error", 0))
         ELSE Raised(Exc("JSONDecodeError", "get_api_answer", "JSON decoding error", 0))
    ELSE Return(r.body)

get_api_answer(r, jsonCompat) ==
    IF r.net = "fail"
    THEN Raised(APIException("get_api_answer", "no access to API", 0))
    ELSE IF r.status_code # HTTP_OK
    THEN Raised(APIException("get_api_answer", "API answer error", r.status_code))
    ELSE IF r.body.t = "undecodable"
    THEN IF jsonCompat
         THEN Raised(APIException("get_api_answer", "JSON decoding error", 0))
         ELSE Raised(Exc("JSONDecodeError", "get_api_answer", "JSON decoding error", 0))
    ELSE Return(r.body)

(* obj[key] for a string key: a list cannot be indexed by a string *)

Subscript(obj, key) ==
    IF obj.t = "dict"
    THEN IF obj[key].k = "absent" THEN Raised(Exc("KeyError", "", key, 0))
         ELSE Return(obj[key])
    ELSE Raised(Exc("TypeError", "", "list indices must be integers", 0))

(* The body of check_response's for loop for one element: the exception   *)
(* it raises, or NoError.                                                  *)

CheckHomework(homeworks, homework) ==
    IF homework.t # "dict"
    THEN Exc("TypeError", "", "argument is not iterable", 0)
    ELSE IF homework.lesson_name.k = "absent"
    THEN Exc("KeyError", "", "key lessons_name not found", 0)
    ELSE IF homework.status.k = "absent"
    THEN Exc("KeyError", "", "key status not found", 0)
    ELSE LET n == Subscript(List(homeworks), "lesson_name") IN
         IF ~n.ok THEN n.err
         ELSE IF n.val.k # "str"
         THEN Exc("TypeError", "", "lessons_name is not str", 0)
         ELSE LET s == Subscript(List(homeworks), "status") IN
              IF ~s.ok THEN s.err
              ELSE IF s.val.k # "str"
              THEN Exc("TypeError", "", "status is not str", 0)
              ELSE NoError

(* check_response: KeyError and TypeError become APIException; the value  *)
(* returned is the homeworks list.                                         *)

FormatError(e) == Raised(APIException("check_response", e.detail, 0))

check_response_no_key_check(response) ==
    IF response.t # "dict"
    THEN FormatError(Exc("TypeError", "", "not a dict", 0))
    ELSE Return(response)

check_response(response) ==
    IF response.t # "dict"
    THEN FormatError(Exc("TypeError", "", "not a dict", 0))
    ELSE IF response.hw.k = "absent"
    THEN FormatError(Exc("KeyError", "", "key homeworks not found", 0))
    ELSE IF response.hw.k # "list"
    THEN FormatError(Exc("TypeError", "", "not a list", 0))
    ELSE LET homeworks == response.hw.items
             bad == {i \in 1..Len(homeworks) :
                        CheckHomework(homeworks, homeworks[i]) # NoError}
         IN IF bad = {} THEN Return(List(homeworks))
            ELSE FormatError(CheckHomework(homeworks,
                     homeworks[CHOOSE i \in bad : \A j \in bad : i <= j]))

----------------------------------------------------------------------------
(* HOMEWORK_VERDICTS and parse_status.  Every exception raised inside     *)
(* parse_status leaves it as an APIException.                              *)

HOMEWORK_VERDICTS_same_checked_text ==
    [approved  |-> "Work checked.",
     reviewing |-> "Work taken for review by the reviewer.",
     rejected  |-> "Work checked."]

HOMEWORK_VERDICTS ==
    [approved  |-> "Work checked: the reviewer liked everything. Hooray!",
     reviewing |-> "Work taken for review by the reviewer.",
     rejected  |-> "Work checked: the reviewer has remarks."]

VerdictError(detail) == Raised(APIException("parse_status", detail, 0))

parse_status(homework) ==
    IF homework.t # "dict"
    THEN VerdictError("object has no attribute get")
    ELSE IF homework.lesson_name.k = "absent"
    THEN VerdictError("homework info has no name")
    ELSE IF homework.status.k = "absent"
    THEN VerdictError("homework status not received")
    ELSE IF ~(homework.status.k = "str" /\ homework.status.v \in DOMAIN HOMEWORK_VERDICTS)
    THEN VerdictError("unknown homework status: " \o homework.status.v)
    ELSE Return("Changed review status of work \"" \o homework.lesson_name.v \o "\". "
                \o HOMEWORK_VERDICTS[homework.status.v])

(* send_message: the call is recorded with its result; a failure of the   *)
(* bot is logged and not raised.                                           *)

send_message(box, message, sendOk) == Append(box, [text |-> message, ok |-> sendOk])

(* value.get('homeworks'): only a dict has the method get *)

MethodGet(value) ==
    IF value.t = "dict" THEN Return(value.hw)
    ELSE Raised(Exc("AttributeError", "main", "object has no attribute get", 0))

(* The try block of main's loop after the request was issued (lines 228   *)
(* to 247), as a function of the loop's variables and of what the HTTP    *)
(* exchange and the bot do.  The result holds the variables after the     *)
(* block and the exception the handlers logged.                            *)

Outcome_rewinds_on_error(ts, pv, nv, box, err) ==
    [timestamp |-> IF err = NoError THEN ts ELSE ts - RETRY_PERIOD,
     prev_verdict |-> pv, new_verdict |-> nv, outbox |-> box, logged |-> err]

Outcome(ts, pv, nv, box, err) ==
    [timestamp |-> ts, prev_verdict |-> pv, new_verdict |-> nv, outbox |-> box,
     logged |-> err]

Iteration(ts, pv, nts, box, r, jsonCompat, sendOk) ==
    LET api_answer == get_api_answer(r, jsonCompat) IN
    IF ~api_answer.ok THEN Outcome(ts, pv, "None", box, api_answer.err)
    ELSE
    LET checked == check_response(api_answer.val) IN
    IF ~checked.ok THEN Outcome(ts, pv, "None", box, checked.err)
    ELSE
    LET got == MethodGet(checked.val) IN
    IF ~got.ok THEN Outcome(ts, pv, "None", box, got.err)
    ELSE
    LET homeworks == got.val IN
    IF homeworks.k = "absent" \/ (homeworks.k = "list" /\ homeworks.items = <<>>)
    THEN Outcome(ts, pv, "None", box, NoError)
    ELSE IF homeworks.k # "list"
    THEN Outcome(ts, pv, "None", box,
                 Exc("TypeError", "main", "object is not subscriptable", 0))
    ELSE
    LET parsed == parse_status(homeworks.items[1]) IN
    IF ~parsed.ok THEN Outcome(ts, pv, "None", box, parsed.err)
    ELSE IF parsed.val # pv
    THEN Outcome(nts, parsed.val, parsed.val,
                 send_message(box, parsed.val, sendOk), NoError)
    ELSE Outcome(ts, pv, parsed.val, box, NoError)

(* The except clause of main's loop that takes an exception: Exception    *)
(* and its subclasses are caught, a BaseException is not.                 *)

Handler_api_only(err) ==
    IF err.cls = "none" THEN "none"
    ELSE IF err.cls = "APIException" THEN "except APIException"
    ELSE "uncaught"

Handler(err) ==
    IF err.cls = "none" THEN "none"
    ELSE IF err.cls = "APIException" THEN "except APIException"
    ELSE IF err.cls \in {"KeyboardInterrupt", "SystemExit"} THEN "uncaught"
    ELSE "except Exception"

----------------------------------------------------------------------------
(* The state machine *)

Init ==
    /\ creds \in [{TokenNames[i] : i \in 1..Len(TokenNames)} -> BOOLEAN]
    /\ pc = "STARTING"
    /\ exit_code = -1
    /\ clock \in StartTimes
    /\ timestamp = 0
    /\ prev_verdict = ""
    /\ new_timestamp = 0
    /\ new_verdict = "None"
    /\ PAYLOAD = [from_date |-> 0]
    /\ reply = NoReply
    /\ logged = NoError
    /\ outbox = <<>>
    /\ iter_sent = 0
    /\ polls = 0
    /\ failures = 0

(* main, lines 208 to 221: check_tokens and Bot(); botOk tells whether    *)
(* the Bot constructor accepts the token.                                  *)
Start ==
    /\ pc = "STARTING"
    /\ \E botOk \in BOOLEAN :
         IF check_tokens(creds) # "" \/ ~botOk
         THEN /\ pc' = "TERMINATED"
              /\ exit_code' = 1
              /\ UNCHANGED <<timestamp, prev_verdict>>
         ELSE /\ pc' = "RUNNING"
              /\ timestamp' = 0
              /\ prev_verdict' = ""
              /\ UNCHANGED exit_code
    /\ UNCHANGED <<creds, clock, new_timestamp, new_verdict, PAYLOAD, reply,
                   logged, outbox, iter_sent, polls, failures>>

Request_from_new_timestamp ==
    /\ pc = "RUNNING"
    /\ polls < MaxPolls
    /\ new_timestamp' = clock
    /\ new_verdict' = "None"
    /\ PAYLOAD' = [PAYLOAD EXCEPT !.from_date = clock]
    /\ polls' = polls + 1
    /\ reply' = NoReply
    /\ logged' = NoError
    /\ iter_sent' = 0
    /\ pc' = "WAITING"
    /\ UNCHANGED <<creds, exit_code, clock, timestamp, prev_verdict, outbox,
                   failures>>

(* main, lines 224 to 228, and get_api_answer up to requests.get *)
Request ==
    /\ pc = "RUNNING"
    /\ polls < MaxPolls
    /\ new_timestamp' = clock
    /\ new_verdict' = "None"
    /\ PAYLOAD' = [PAYLOAD EXCEPT !.from_date = timestamp]
    /\ polls' = polls + 1
    /\ reply' = NoReply
    /\ logged' = NoError
    /\ iter_sent' = 0
    /\ pc' = "WAITING"
    /\ UNCHANGED <<creds, exit_code, clock, timestamp, prev_verdict, outbox,
                   failures>>

(* the rest of the iteration once the HTTP exchange has ended *)
Respond ==
    /\ pc = "WAITING"
    /\ \E r \in Replies, jsonCompat \in BOOLEAN, sendOk \in BOOLEAN :
         LET out == Iteration(timestamp, prev_verdict, new_timestamp, outbox,
                              r, jsonCompat, sendOk)
         IN /\ reply' = r
            /\ timestamp' = out.timestamp
            /\ prev_verdict' = out.prev_verdict
            /\ new_verdict' = out.new_verdict
            /\ outbox' = out.outbox
            /\ iter_sent' = Len(out.outbox) - Len(outbox)
            /\ logged' = out.logged
            /\ failures' = IF Handler(out.logged) = "none" THEN failures
                                                            ELSE failures + 1
    /\ pc' = "SLEEPING"
    /\ UNCHANGED <<creds, exit_code, clock, new_timestamp, PAYLOAD, polls>>

Sleep_only_after_api_error ==
    /\ pc = "SLEEPING"
    /\ clock' = IF Handler(logged) = "except APIException"
                THEN clock + RETRY_PERIOD ELSE clock
    /\ IF Handler(logged) = "uncaught"
       THEN pc' = "TERMINATED" /\ exit_code' = 1
       ELSE pc' = "RUNNING" /\ UNCHANGED exit_code
    /\ UNCHANGED <<creds, timestamp, prev_verdict, new_timestamp, new_verdict,
                   PAYLOAD, reply, logged, outbox, iter_sent, polls, failures>>

(* the finally clause, time.sleep(RETRY_PERIOD); after it the loop goes   *)
(* on, unless an exception no except clause took is still propagating     *)
Sleep ==
    /\ pc = "SLEEPING"
    /\ clock' = clock + RETRY_PERIOD
    /\ IF Handler(logged) = "uncaught"
       THEN pc' = "TERMINATED" /\ exit_code' = 1
       ELSE pc' = "RUNNING" /\ UNCHANGED exit_code
    /\ UNCHANGED <<creds, timestamp, prev_verdict, new_timestamp, new_verdict,
                   PAYLOAD, reply, logged, outbox, iter_sent, polls, failures>>

Next == Start \/ Request \/ Respond \/ Sleep

Spec == Init /\ [][Next]_vars

(* A sequential program: whatever step is next is eventually taken *)
FairSpec == Spec /\ WF_vars(Next)

(* SIGINT delivered while the try block runs: KeyboardInterrupt is a      *)
(* BaseException, neither except clause takes it, the finally clause      *)
(* still sleeps and then the exception leaves main.                        *)
InterruptIteration ==
    /\ pc = "WAITING"
    /\ logged' = Exc("KeyboardInterrupt", "main", "", 0)
    /\ pc' = "SLEEPING"
    /\ UNCHANGED <<creds, exit_code, clock, timestamp, prev_verdict, new_timestamp,
                   new_verdict, PAYLOAD, reply, outbox, iter_sent, polls, failures>>

(* SIGINT delivered during time.sleep of the finally clause: the           *)
(* KeyboardInterrupt leaves main at once.                                  *)
InterruptSleep ==
    /\ pc = "SLEEPING"
    /\ logged' = Exc("KeyboardInterrupt", "sleep", "", 0)
    /\ pc' = "TERMINATED"
    /\ exit_code' = 1
    /\ UNCHANGED <<creds, clock, timestamp, prev_verdict, new_timestamp,
                   new_verdict, PAYLOAD, reply, outbox, iter_sent, polls, failures>>

NextInt == Next \/ InterruptIteration \/ InterruptSleep

SpecInt == Init /\ [][NextInt]_vars

----------------------------------------------------------------------------
(* parse_status on its own: two homework entries with string names and    *)
(* statuses of the vocabulary are parsed one after the other, the first   *)
(* message taking the place of prev_verdict and the second of new_verdict *)
(* as in the comparison of line 237.  The names include ones that embed a *)
(* verdict text behind the closing quote.                                  *)

ParseNames == Names \cup {"Task1\". " \o HOMEWORK_VERDICTS[s] : s \in DOMAIN HOMEWORK_VERDICTS}
ParseEntries == {Entry(Str(n), Str(s)) : n \in ParseNames, s \in DOMAIN HOMEWORK_VERDICTS}

InitParse ==
    /\ creds = [n \in {TokenNames[i] : i \in 1..Len(TokenNames)} |-> TRUE]
    /\ pc = "PARSING"
    /\ exit_code = -1
    /\ clock \in StartTimes
    /\ timestamp = 0
    /\ prev_verdict = ""
    /\ new_timestamp = 0
    /\ new_verdict = "None"
    /\ PAYLOAD = [from_date |-> 0]
    /\ \E a \in ParseEntries, b \in ParseEntries :
          reply = [net |-> "ok", status_code |-> HTTP_OK,
                   body |-> [t |-> "dict", hw |-> [k |-> "list", items |-> <<a, b>>],
                             cd |-> [k |-> "int", v |-> 100]]]
    /\ logged = NoError
    /\ outbox = <<>>
    /\ iter_sent = 0
    /\ polls = 0
    /\ failures = 0

ParsePrevious ==
    /\ pc = "PARSING"
    /\ prev_verdict' = parse_status(reply.body.hw.items[1]).val
    /\ pc' = "PARSED_PREVIOUS"
    /\ UNCHANGED <<creds, exit_code, clock, timestamp, new_timestamp, new_verdict,
                   PAYLOAD, reply, logged, outbox, iter_sent, polls, failures>>

ParseNew ==
    /\ pc = "PARSED_PREVIOUS"
    /\ new_verdict' = parse_status(reply.body.hw.items[2]).val
    /\ pc' = "COMPARED"
    /\ UNCHANGED <<creds, exit_code, clock, timestamp, prev_verdict, new_timestamp,
                   PAYLOAD, reply, logged, outbox, iter_sent, polls, failures>>

NextParse == ParsePrevious \/ ParseNew

SpecParse == InitParse /\ [][NextParse]_vars

----------------------------------------------------------------------------
(* Properties *)

IterationStep == pc = "WAITING" /\ pc' = "SLEEPING"
RequestStep == pc = "RUNNING" /\ pc' = "WAITING"

Ok200(r) == r.net = "ok" /\ r.status_code = HTTP_OK
HasHomeworksList(r) == Ok200(r) /\ r.body.t = "dict" /\ r.body.hw.k = "list"
WellFormedEntry(e) == e.t = "dict" /\ e.lesson_name.k = "str" /\ e.status.k = "str"
WellFormed(r) ==
    /\ HasHomeworksList(r)
    /\ r.body.cd.k = "int"
    /\ \A i \in 1..Len(r.body.hw.items) : WellFormedEntry(r.body.hw.items[i])
FirstEntry(r) == r.body.hw.items[1]
FirstMessage(r) == parse_status(FirstEntry(r)).val
NovelVerdict(r, last) ==
    /\ WellFormed(r)
    /\ r.body.hw.items # <<>>
    /\ parse_status(FirstEntry(r)).ok
    /\ FirstMessage(r) # last
EmptyHomeworks(r) == HasHomeworksList(r) /\ r.body.hw.items = <<>>
MissingHomeworks(r) == Ok200(r) /\ r.body.t = "dict" /\ r.body.hw.k = "absent"
UnknownStatusFirst(r) ==
    /\ WellFormed(r)
    /\ r.body.hw.items # <<>>
    /\ FirstEntry(r).status.v \notin DOMAIN HOMEWORK_VERDICTS
BadStatus(r) == r.net = "ok" /\ r.status_code # HTTP_OK
AnyTokenMissing == \E i \in 1..Len(TokenNames) : ~creds[TokenNames[i]]

NothingSent == iter_sent' = 0 /\ outbox' = outbox
StateKept == timestamp' = timestamp /\ prev_verdict' = prev_verdict

(* In every reachable state no notification was ever attempted and the   *)
(* loop's timestamp and prev_verdict hold their initial values: every     *)
(* iteration ends in an except clause before line 233.                     *)
NothingEverCommitted ==
    /\ outbox = <<>>
    /\ timestamp = 0
    /\ prev_verdict = ""
    /\ failures = (IF pc = "WAITING" THEN polls - 1 ELSE polls)

(* C1: an iteration whose poll returns HTTP 200 with a well-formed         *)
(* response, a non-empty homeworks list and a first entry whose verdict   *)
(* message differs from prev_verdict calls send_message exactly once,     *)
(* with that message.                                                      *)
C1_ExactlyOneNotification ==
    [][(IterationStep /\ NovelVerdict(reply', prev_verdict))
         => /\ iter_sent' = 1
            /\ Len(outbox') = Len(outbox) + 1
            /\ outbox'[Len(outbox')].text = FirstMessage(reply')]_vars

(* C3: an iteration whose response is HTTP 200 with an empty homeworks     *)
(* list sends nothing and keeps timestamp and prev_verdict, and the       *)
(* request that follows it carries the same from_date as the one before.  *)
C3_EmptyHomeworksKeepsState ==
    [][/\ (IterationStep /\ EmptyHomeworks(reply')) => (NothingSent /\ StateKept)
       /\ (RequestStep /\ EmptyHomeworks(reply))
             => PAYLOAD'.from_date = PAYLOAD.from_date]_vars

C3_Witness ==
    /\ pc = "RUNNING"
    /\ EmptyHomeworks(reply)
    /\ iter_sent = 0
    /\ polls < MaxPolls
    /\ PAYLOAD.from_date = timestamp

(* C5: once the loop runs, whatever exception an iteration raises, the     *)
(* iteration ends in the sleep of the finally clause and never leaves the *)
(* loop, and from every state in which an iteration has ended (or the     *)
(* loop is at its top) a further poll request is eventually issued.       *)
C5_ErrorsNeverEscape ==
    /\ [][pc = "WAITING" => pc' = "SLEEPING"]_vars
    /\ (pc \in {"RUNNING", "SLEEPING"} /\ polls < MaxPolls) ~> (pc = "WAITING")

C5_Witness ==
    /\ pc = "WAITING"
    /\ failures >= 2
    /\ polls = failures + 1

(* C6: when one of the three credentials is absent the program only ever  *)
(* is STARTING or TERMINATED, terminates with a non-zero exit code, and   *)
(* issues no poll and sends no notification.                               *)
C6_MissingTokenTerminates ==
    AnyTokenMissing =>
        /\ pc \in {"STARTING", "TERMINATED"}
        /\ pc = "TERMINATED" => exit_code > 0
        /\ polls = 0
        /\ outbox = <<>>
        /\ reply = NoReply

C6_Witness ==
    /\ ~creds["TELEGRAM_TOKEN"]
    /\ pc = "TERMINATED"
    /\ exit_code = 1

(* C8: for a decoded object without the homeworks key check_response       *)
(* raises the format error, nothing is sent and timestamp and             *)
(* prev_verdict are what they were before the iteration.                   *)
C8_MissingHomeworksKey ==
    [][(IterationStep /\ MissingHomeworks(reply'))
         => /\ logged'.cls = "APIException"
            /\ logged'.origin = "check_response"
            /\ logged'.detail = "key homeworks not found"
            /\ NothingSent
            /\ StateKept]_vars

C8_Witness ==
    /\ pc = "SLEEPING"
    /\ MissingHomeworks(reply)
    /\ logged.origin = "check_response"

(* C9: for a structurally valid response whose first entry has a string   *)
(* status outside the vocabulary, validation passes and the iteration     *)
(* fails in parse_status with the unknown-status error; nothing is sent   *)
(* and timestamp and prev_verdict are kept.                                *)
C9_UnknownStatusFromParseStatus ==
    [][(IterationStep /\ UnknownStatusFirst(reply'))
         => /\ logged'.cls = "APIException"
            /\ logged'.origin = "parse_status"
            /\ NothingSent
            /\ StateKept]_vars

(* C10: for a poll whose status code is not 200, get_api_answer raises its *)
(* error with the observed status code, nothing is sent, timestamp and    *)
(* prev_verdict are kept, and the next request carries the same from_date.*)
C10_Non200KeepsCheckpoint ==
    [][/\ (IterationStep /\ BadStatus(reply'))
             => /\ logged'.cls = "APIException"
                /\ logged'.origin = "get_api_answer"
                /\ logged'.code = reply'.status_code
                /\ NothingSent
                /\ StateKept
       /\ (RequestStep /\ BadStatus(reply))
             => PAYLOAD'.from_date = PAYLOAD.from_date]_vars

C10_Witness ==
    /\ pc = "RUNNING"
    /\ BadStatus(reply)
    /\ logged.code = 500
    /\ iter_sent = 0
    /\ polls < MaxPolls
    /\ PAYLOAD.from_date = timestamp

(* C11: for a decoded object with a homeworks list, check_response raises  *)
(* the format error exactly when some element lacks lesson_name or status *)
(* or holds a non-string value for either; otherwise it succeeds.         *)
C11_ValidatesEveryElement ==
    (pc = "SLEEPING" /\ HasHomeworksList(reply))
        => LET checked == check_response(reply.body)
               good == \A i \in 1..Len(reply.body.hw.items) :
                           WellFormedEntry(reply.body.hw.items[i])
           IN IF good THEN checked.ok
              ELSE ~checked.ok /\ checked.err.cls = "APIException"
                               /\ checked.err.origin = "check_response"

(* C12: check_response raises the format error for every response that is *)
(* not an object, lacks the homeworks key, holds a homeworks that is not  *)
(* a list, lacks current_date or holds a current_date that is not an      *)
(* integer.                                                                *)
C12_RejectsMalformedTopLevel ==
    (/\ pc = "SLEEPING"
     /\ Ok200(reply)
     /\ reply.body.t # "undecodable"
     /\ \/ reply.body.t # "dict"
        \/ reply.body.hw.k # "list"
        \/ reply.body.cd.k # "int")
        => LET checked == check_response(reply.body)
           IN /\ ~checked.ok
              /\ checked.err.cls = "APIException"
              /\ checked.err.origin = "check_response"
              /\ logged = checked.err

(* C13: TERMINATED is entered from STARTING only; once the loop has been   *)
(* entered no step, an interrupt included, leads to termination.           *)
C13_OnlyStartupTerminates ==
    [][pc' = "TERMINATED" => pc \in {"STARTING", "TERMINATED"}]_vars

(* C13 as amended: after the loop has been entered, TERMINATED is entered *)
(* only by a KeyboardInterrupt raised inside an iteration or during the   *)
(* sleep; no exception that an except clause takes ends the process.      *)
C13_OnlyInterruptLeavesLoop ==
    [][(pc' = "TERMINATED" /\ pc \notin {"STARTING", "TERMINATED"})
          => /\ logged'.cls = "KeyboardInterrupt"
             /\ pc = "SLEEPING"
             /\ exit_code' > 0]_vars

C13_Witness ==
    /\ pc = "TERMINATED"
    /\ polls >= 2
    /\ logged.cls = "KeyboardInterrupt"
    /\ failures >= 1

(* C14: a poll request is issued only from the top of the loop, which is  *)
(* reached only through the sleep; every iteration, whatever its result,  *)
(* goes to the sleep; and when a request is issued after an earlier one   *)
(* exactly one sleep of RETRY_PERIOD lies between the two.                *)
C14_OneSleepBetweenPolls ==
    [][/\ pc' = "WAITING" => (pc = "RUNNING" /\ polls' = polls + 1)
       /\ pc = "WAITING" => pc' = "SLEEPING"
       /\ (pc = "SLEEPING" /\ pc' # "SLEEPING") => pc' = "RUNNING"
       /\ (pc' = "RUNNING" /\ pc # "STARTING") => pc = "SLEEPING"
       /\ (RequestStep /\ polls >= 1)
             => clock = new_timestamp + RETRY_PERIOD]_vars

C14_Witness ==
    /\ pc = "WAITING"
    /\ polls = 3
    /\ new_timestamp = clock
    /\ \E t \in StartTimes : clock = t + 2 * RETRY_PERIOD

(* C15: in an iteration whose response is well formed with a non-empty    *)
(* homeworks list, verdict extraction is applied to homeworks[0]: the     *)
(* iteration's verdict and the stored prev_verdict after it are the       *)
(* message of the first entry, whatever entries follow, and at most one   *)
(* notification, carrying that message, is sent.                           *)
C15_FirstEntryOnly ==
    [][(/\ IterationStep
        /\ WellFormed(reply')
        /\ reply'.body.hw.items # <<>>
        /\ parse_status(FirstEntry(reply')).ok)
          => /\ new_verdict' = FirstMessage(reply')
             /\ prev_verdict' = FirstMessage(reply')
             /\ iter_sent' <= 1
             /\ iter_sent' = 1 => outbox'[Len(outbox')].text = FirstMessage(reply')]_vars

(* C16: every request carries the value of timestamp at the moment it is  *)
(* issued; the first request carries 0; timestamp changes only in an      *)
(* iteration that commits a novel verdict, so a later request carries the *)
(* checkpoint of the latest commit, or 0 when there was none.             *)
C16_RequestCarriesCheckpoint ==
    [][/\ RequestStep => /\ PAYLOAD'.from_date = timestamp
                         /\ polls = 0 => PAYLOAD'.from_date = 0
                         /\ outbox = <<>> => PAYLOAD'.from_date = 0
       /\ timestamp' # timestamp
             => (IterationStep /\ iter_sent' = 1 /\ timestamp' = new_timestamp)]_vars

C16_Witness ==
    /\ pc = "WAITING"
    /\ polls >= 2
    /\ outbox = <<>>
    /\ PAYLOAD.from_date = 0
    /\ timestamp = 0

(* C17: timestamp never decreases, and the from_date of a request is not  *)
(* below the from_date of the request before it.                           *)
C17_CheckpointNeverDecreases ==
    [][/\ timestamp' >= timestamp
       /\ (RequestStep /\ polls >= 1) => PAYLOAD'.from_date >= PAYLOAD.from_date]_vars

C17_Witness ==
    /\ pc = "WAITING"
    /\ polls >= 3
    /\ failures >= 2
    /\ PAYLOAD.from_date >= 0
    /\ PAYLOAD.from_date = timestamp

(* C19: every step either leaves timestamp and prev_verdict as they were, *)
(* or is an iteration that called send_message once and then overwrote    *)
(* prev_verdict with the new verdict and timestamp with new_timestamp; in *)
(* every state timestamp is 0 exactly when prev_verdict is empty.         *)
C19_StateUpdatedTogether ==
    /\ [](timestamp = 0 <=> prev_verdict = "")
    /\ [][\/ StateKept
          \/ /\ IterationStep
             /\ iter_sent' = 1
             /\ prev_verdict' # prev_verdict
             /\ prev_verdict' = new_verdict'
             /\ timestamp' = new_timestamp]_vars

C19_Witness ==
    /\ pc = "RUNNING"
    /\ polls >= 2
    /\ failures = polls
    /\ timestamp = 0
    /\ prev_verdict = ""

(* C20: parse_status yields different messages for two entries that      *)
(* differ in name or in status, so the comparison of the new message with *)
(* the previous one tells them apart.                                      *)
C20_MessagesInjective ==
    pc = "COMPARED"
        => LET a == reply.body.hw.items[1]
               b == reply.body.hw.items[2]
           IN /\ a # b => new_verdict # prev_verdict
              /\ a = b => new_verdict = prev_verdict

C20_Witness ==
    /\ pc = "COMPARED"
    /\ reply.body.hw.items[1].lesson_name = reply.body.hw.items[2].lesson_name
    /\ reply.body.hw.items[1].status.v = "approved"
    /\ reply.body.hw.items[2].status.v = "rejected"
    /\ new_verdict # prev_verdict

====
